---- MODULE Spec2Model ----
(***************************************************************************)
(* HFAutoModelForCausalLM (nemo/collections/llm/gpt/model/                 *)
(* hf_auto_model_for_causal_lm.py) and torch_dtype_from_precision          *)
(* (nemo/export/utils/utils.py) as state machines.                         *)
(*                                                                         *)
(*   SpecPrecision  torch_dtype_from_precision applied to bounded inputs   *)
(*   SpecLoss       masked_cross_entropy applied to bounded inputs         *)
(*   Spec           one adapter in one process: __init__, the tokenizer    *)
(*                  property, configure_model, forward, the steps, save    *)
(*   SpecStep       the two steps on a configured adapter, over every      *)
(*                  batch and every forward signature                      *)
(*   SpecSave       save_pretrained called on every rank of a run          *)
(***************************************************************************)
EXTENDS Integers, Sequences, FiniteSets

VARIABLES
    \* torch_dtype_from_precision: its arguments and its outcome
    precision, megatron_amp_O2, dtype,
    \* masked_cross_entropy: its arguments and its outcome
    logits, targets, mask, loss,
    \* HFAutoModelForCausalLM: hparams (the constructor's arguments as
    \* save_hyperparameters keeps them; those some other field does not hold),
    \* the fields, and device_mesh, which the strategy sets
    hparams, _tokenizer, model, trust_remote_code, load_pretrained_weights,
    parallelize_fn, model_accelerator, device_mesh,
    \* the number of tokenizers AutoTokenizer has built for this adapter
    built,
    \* the last call on the adapter: the operation, the batch it was given, how
    \* it ended, what it returned, the calls it made in order, the mappings it
    \* handed to the model, the AutoTokenizer constructions it attempted
    op, arg_batch, result, ret, ret_tokenizer, calls, fwd_calls, tok_attempts,
    \* save_pretrained on the ranks of one run: whether torch.distributed is
    \* initialized, the number of processes, the model every rank holds, whether
    \* its state dict holds DTensors, and per rank the tokenizer field, the
    \* position in save_pretrained, whether cpu_state_dict is bound, what was
    \* written to the path, whether the warning was logged, how the call ended;
    \* joined: the ranks that have entered the full_tensor() collective
    dist_initialized, world_size, save_model, sharded,
    rk_tokenizer, pc, joined, cpu_state_dict, written, warned, save_result

pvars == <<precision, megatron_amp_O2, dtype>>
lvars == <<logits, targets, mask, loss>>
cfgvars == <<hparams, trust_remote_code, load_pretrained_weights,
             model_accelerator, device_mesh>>
callvars == <<op, arg_batch, result, ret, ret_tokenizer, calls, fwd_calls, tok_attempts>>
avars == <<cfgvars, _tokenizer, model, parallelize_fn, built, callvars>>
svars == <<dist_initialized, world_size, save_model, sharded,
           rk_tokenizer, pc, joined, cpu_state_dict, written, warned, save_result>>
vars == <<pvars, lvars, avars, svars>>

(***************************************************************************)
(* Python values of the kinds the precision argument is documented to      *)
(* take, Union[int, str].  An int and a str are never equal under ==.      *)
(***************************************************************************)
PyInt(n) == [type |-> "int", i |-> n, s |-> ""]
PyStr(t) == [type |-> "str", i |-> 0, s |-> t]
PyNone == [type |-> "NoneType", i |-> 0, s |-> ""]

PyEq(a, b) == a.type = b.type /\ a.i = b.i /\ a.s = b.s

\* x in [e1, ..., en]: == against each element in turn
PyIn(x, list) == \E k \in 1..Len(list) : PyEq(x, list[k])

Return(t) == [kind |-> "return", dtype |-> t, exc |-> "", names |-> PyNone]
Raise(e, v) == [kind |-> "raise", dtype |-> "", exc |-> e, names |-> v]
NotCalled == [kind |-> "not called", dtype |-> "", exc |-> "", names |-> PyNone]

\* the function without its early return for megatron_amp_O2 = False
torch_dtype_from_precision_no_O2_check(p, amp_O2) ==
    IF PyIn(p, <<PyStr("bf16"), PyStr("bf16-mixed")>>) THEN Return("bfloat16")
    ELSE IF PyIn(p, <<PyInt(16), PyStr("16"), PyStr("16-mixed")>>) THEN Return("float16")
    ELSE IF PyIn(p, <<PyInt(32), PyStr("32"), PyStr("32-true")>>) THEN Return("float32")
    ELSE Raise("ValueError", p)

torch_dtype_from_precision(p, amp_O2) ==
    IF ~amp_O2 THEN Return("float32")
    ELSE IF PyIn(p, <<PyStr("bf16"), PyStr("bf16-mixed")>>) THEN Return("bfloat16")
    ELSE IF PyIn(p, <<PyInt(16), PyStr("16"), PyStr("16-mixed")>>) THEN Return("float16")
    ELSE IF PyIn(p, <<PyInt(32), PyStr("32"), PyStr("32-true")>>) THEN Return("float32")
    ELSE Raise("ValueError", p)

MaxPrecisionInt == 33

PrecisionStrings ==
    {"bf16", "bf16-mixed", "16", "16-mixed", "32", "32-true",
     "bf16-true", "16-true", "32-mixed", "64", "64-true", "fp16", "float32", ""}

PrecisionInputs ==
    {PyInt(n) : n \in 0..MaxPrecisionInt} \cup {PyInt(64)}
        \cup {PyStr(t) : t \in PrecisionStrings}

PrecisionIdle ==
    /\ precision = PyNone
    /\ megatron_amp_O2 = TRUE
    /\ dtype = NotCalled

InitPrecisionInputs ==
    /\ precision \in PrecisionInputs
    /\ megatron_amp_O2 \in BOOLEAN
    /\ dtype = NotCalled

CallTorchDtypeFromPrecision ==
    /\ dtype = NotCalled
    /\ dtype' = torch_dtype_from_precision(precision, megatron_amp_O2)
    /\ UNCHANGED <<precision, megatron_amp_O2, lvars, avars, svars>>

(***************************************************************************)
(* masked_cross_entropy.  Row i of logits is represented by logits[i], its *)
(* cross-entropy against a class target (a natural number here; the claims *)
(* are about sums and denominators, kept exact as num/den).  targets[i] is *)
(* a class index or IgnoreIndex: F.cross_entropy is called with its default         *)
(* ignore_index, so a target equal to IgnoreIndex contributes 0 under      *)
(* reduction='none' and is left out of numerator and denominator under the *)
(* default reduction='mean'.                                               *)
(***************************************************************************)
IgnoreIndex == -100

RECURSIVE SumSeq(_)
SumSeq(s) == IF s = <<>> THEN 0 ELSE Head(s) + SumSeq(Tail(s))

Rat(n, d) == [nan |-> FALSE, num |-> n, den |-> d]
NaN == [nan |-> TRUE, num |-> 0, den |-> 1]
NoLoss == [nan |-> FALSE, num |-> 0, den |-> 0]

RatEq(a, b) == /\ a.nan = b.nan
               /\ ~a.nan => a.num * b.den = b.num * a.den

\* F.cross_entropy(logits, targets, reduction='none')
cross_entropy_none(lg, tg) ==
    [i \in 1..Len(lg) |-> IF tg[i] = IgnoreIndex THEN 0 ELSE lg[i]]

\* F.cross_entropy(logits, targets): mean over the targets that are not ignored
cross_entropy_mean(lg, tg) ==
    LET kept == {i \in 1..Len(lg) : tg[i] # IgnoreIndex}
    IN  IF kept = {} THEN NaN
        ELSE Rat(SumSeq(cross_entropy_none(lg, tg)), Cardinality(kept))

\* torch.mean(t): the sum over all elements divided by their number
torch_mean(t) == Rat(SumSeq(t), Len(t))

\* the masked mean: the masked sum divided by the number of unmasked entries
masked_cross_entropy_masked_mean(lg, tg, m) ==
    IF m.present
    THEN LET l == cross_entropy_none(lg, tg)
         IN  IF SumSeq(m.view) = 0 THEN NaN
             ELSE Rat(SumSeq([i \in 1..Len(l) |-> l[i] * m.view[i]]), SumSeq(m.view))
    ELSE cross_entropy_mean(lg, tg)

masked_cross_entropy(lg, tg, m) ==
    IF m.present
    THEN LET l == cross_entropy_none(lg, tg)
         IN  torch_mean([i \in 1..Len(l) |-> l[i] * m.view[i]])
    ELSE cross_entropy_mean(lg, tg)

MaxN == 3
MaxLoss == 2

NoMask == [present |-> FALSE, view |-> <<>>]
Mask(m) == [present |-> TRUE, view |-> m]
MaskValues == {0, 1}
TargetValues == {IgnoreIndex, 0}

LossIdle ==
    /\ logits = <<>>
    /\ targets = <<>>
    /\ mask = NoMask
    /\ loss = NoLoss

InitLossInputs ==
    /\ \E n \in 1..MaxN :
          /\ logits \in [1..n -> 0..MaxLoss]
          /\ targets \in [1..n -> TargetValues]
          /\ mask \in {NoMask} \cup {Mask(m) : m \in [1..n -> MaskValues]}
    /\ loss = NoLoss

CallMaskedCrossEntropy ==
    /\ loss = NoLoss
    /\ loss' = masked_cross_entropy(logits, targets, mask)
    /\ UNCHANGED <<logits, targets, mask, pvars, avars, svars>>


(***************************************************************************)
(* HFAutoModelForCausalLM                                                  *)
(***************************************************************************)
\* Tokenizer handles.  id tells apart the instances of one origin.
NoneTokenizer ==
    [origin |-> "None", id |-> 0, use_fast |-> FALSE, trust_remote_code |-> FALSE]
AutoTokenizer(n, fast, trust) ==
    [origin |-> "AutoTokenizer", id |-> n, use_fast |-> fast, trust_remote_code |-> trust]
InjectedTokenizer(n) ==
    [origin |-> "injected", id |-> n, use_fast |-> FALSE, trust_remote_code |-> FALSE]

MaxInjected == 2
MaxBuilt == 2
InjectedTokenizers == {InjectedTokenizer(n) : n \in 1..MaxInjected}

\* The model handle: the parameter names of its forward signature and whether
\* its type name starts with 'FSDP'.
NoneModel == [exists |-> FALSE, forward_params |-> {}, fsdp |-> FALSE]
Model(params, wrapped) == [exists |-> TRUE, forward_params |-> params, fsdp |-> wrapped]

\* A batch is a dict from field names to tensors, a set of items here.  The
\* tensor that arrives under field f is named f.
Batch(fields) == {[k |-> f, v |-> f] : f \in fields}
Keys(b) == {e.k : e \in b}
Has(b, key) == key \in Keys(b)
Get(b, key) == (CHOOSE e \in b : e.k = key).v
Pop(b, key) == {e \in b : e.k # key}
Put(b, key, val) == Pop(b, key) \cup {[k |-> key, v |-> val]}

\* What a call leaves behind.
Outcome(res, rt, cs, fw) == [result |-> res, ret |-> rt, calls |-> cs, fwd_calls |-> fw]

\* configure_tokenizer(model_name, use_fast=True, trust_remote_code=False);
\* fails[i] tells whether AutoTokenizer raises on the i-th construction.
configure_tokenizer(model_name, use_fast, trust_remote_code_, fails) ==
    LET first == [use_fast |-> use_fast, trust_remote_code |-> trust_remote_code_]
        second == [use_fast |-> ~use_fast, trust_remote_code |-> trust_remote_code_]
    IN  IF ~fails[1] THEN [raised |-> FALSE, attempts |-> <<first>>]
        ELSE [raised |-> fails[2], attempts |-> <<first, second>>]

\* the tokenizer property's call: two positional arguments
tokenizer_getter_call(fails) ==
    configure_tokenizer("model_name", trust_remote_code, FALSE, fails)

ResetCall(name, b) ==
    /\ op' = name
    /\ arg_batch' = b
    /\ tok_attempts' = <<>>
    /\ ret_tokenizer' = NoneTokenizer

\* tokenizer (property getter)
TokenizerGet(fails) ==
    /\ op' = "tokenizer.get"
    /\ arg_batch' = {}
    /\ calls' = <<>>
    /\ fwd_calls' = <<>>
    /\ IF _tokenizer = NoneTokenizer
       THEN LET c == tokenizer_getter_call(fails)
                last == c.attempts[Len(c.attempts)]
            IN  /\ built < MaxBuilt
                /\ tok_attempts' = c.attempts
                /\ IF c.raised
                   THEN /\ result' = "Exception"
                        /\ ret' = ""
                        /\ ret_tokenizer' = NoneTokenizer
                        /\ UNCHANGED <<_tokenizer, built>>
                   ELSE /\ built' = built + 1
                        /\ _tokenizer' =
                              AutoTokenizer(built + 1, last.use_fast, last.trust_remote_code)
                        /\ result' = "ok"
                        /\ ret' = "tokenizer"
                        /\ ret_tokenizer' = _tokenizer'
       ELSE /\ tok_attempts' = <<>>
            /\ result' = "ok"
            /\ ret' = "tokenizer"
            /\ ret_tokenizer' = _tokenizer
            /\ UNCHANGED <<_tokenizer, built>>
    /\ UNCHANGED <<cfgvars, model, parallelize_fn, pvars, lvars, svars>>

\* tokenizer (property setter)
TokenizerSet(value) ==
    /\ ResetCall("tokenizer.set", {})
    /\ calls' = <<>>
    /\ fwd_calls' = <<>>
    /\ ret' = ""
    /\ IF _tokenizer = NoneTokenizer
       THEN /\ _tokenizer' = value
            /\ result' = "ok"
       ELSE /\ result' = "AssertionError"
            /\ UNCHANGED _tokenizer
    /\ UNCHANGED <<cfgvars, model, parallelize_fn, built, pvars, lvars, svars>>

\* configure_model.  The environment decides the created model's forward
\* signature, whether creation, the parallelize function and the accelerator
\* hook raise, and whether the parallelize function leaves a type whose name
\* starts with 'FSDP'.
\* configure_model with the accelerator hook run before the parallelize function
configure_model_accelerator_first(params, create_ok, wrapped, parallelize_ok, accelerator_ok) ==
    LET create == IF load_pretrained_weights
                  THEN <<"AutoModelForCausalLM.from_pretrained">>
                  ELSE <<"AutoConfig.from_pretrained", "AutoModelForCausalLM.from_config">>
        fn == IF parallelize_fn = "None" THEN "fsdp2_strategy_parallelize"
              ELSE parallelize_fn
        parallelize == IF device_mesh # "None" THEN <<fn>> ELSE <<>>
        accelerate == IF model_accelerator # "None" THEN <<"model_accelerator">> ELSE <<>>
    IN  IF ~create_ok
        THEN [result |-> "Exception", calls |-> create, model |-> model,
              parallelize_fn |-> parallelize_fn]
        ELSE IF model_accelerator # "None" /\ ~accelerator_ok
        THEN [result |-> "Exception", calls |-> create \o accelerate,
              model |-> Model(params, FALSE), parallelize_fn |-> parallelize_fn]
        ELSE IF device_mesh # "None" /\ ~parallelize_ok
        THEN [result |-> "Exception", calls |-> create \o accelerate \o parallelize,
              model |-> Model(params, FALSE), parallelize_fn |-> fn]
        ELSE [result |-> "ok",
              calls |-> create \o accelerate \o parallelize \o <<"model.train">>,
              model |-> Model(params, device_mesh # "None" /\ wrapped),
              parallelize_fn |-> IF device_mesh # "None" THEN fn ELSE parallelize_fn]

configure_model(params, create_ok, wrapped, parallelize_ok, accelerator_ok) ==
    LET create == IF load_pretrained_weights
                  THEN <<"AutoModelForCausalLM.from_pretrained">>
                  ELSE <<"AutoConfig.from_pretrained", "AutoModelForCausalLM.from_config">>
        fn == IF parallelize_fn = "None" THEN "fsdp2_strategy_parallelize"
              ELSE parallelize_fn
        parallelize == IF device_mesh # "None" THEN <<fn>> ELSE <<>>
        accelerate == IF model_accelerator # "None" THEN <<"model_accelerator">> ELSE <<>>
    IN  IF ~create_ok
        THEN [result |-> "Exception", calls |-> create, model |-> model,
              parallelize_fn |-> parallelize_fn]
        ELSE IF device_mesh # "None" /\ ~parallelize_ok
        THEN [result |-> "Exception", calls |-> create \o parallelize,
              model |-> Model(params, FALSE), parallelize_fn |-> fn]
        ELSE LET m == Model(params, device_mesh # "None" /\ wrapped)
                 f == IF device_mesh # "None" THEN fn ELSE parallelize_fn
             IN  IF model_accelerator # "None" /\ ~accelerator_ok
                 THEN [result |-> "Exception",
                       calls |-> create \o parallelize \o accelerate,
                       model |-> m, parallelize_fn |-> f]
                 ELSE [result |-> "ok",
                       calls |-> create \o parallelize \o accelerate \o <<"model.train">>,
                       model |-> m, parallelize_fn |-> f]

ConfigureModel(params, create_ok, wrapped, parallelize_ok, accelerator_ok) ==
    LET c == configure_model(params, create_ok, wrapped, parallelize_ok, accelerator_ok)
    IN  /\ ResetCall("configure_model", {})
        /\ result' = c.result
        /\ ret' = IF c.result = "ok" THEN "None" ELSE ""
        /\ calls' = c.calls
        /\ fwd_calls' = <<>>
        /\ model' = c.model
        /\ parallelize_fn' = c.parallelize_fn
        /\ UNCHANGED <<cfgvars, _tokenizer, built, pvars, lvars, svars>>

\* forward(self, batch): self.model(**batch)
forward(m, batch) ==
    IF ~m.exists THEN Outcome("TypeError", "", <<>>, <<>>)
    ELSE IF Keys(batch) \subseteq m.forward_params
    THEN Outcome("ok", "outputs", <<"model.forward">>, <<batch>>)
    ELSE Outcome("TypeError", "", <<"model.forward">>, <<batch>>)

\* self.forward(**batch): the keywords are bound to forward's one parameter,
\* batch.  Any other keyword, or none, is a TypeError before the body runs; a
\* lone keyword batch binds a tensor, which self.model(**batch) cannot unpack.
forward_kwargs(m, kwargs) == Outcome("TypeError", "", <<>>, <<>>)

\* no filtering: the batch goes to the model as it is
_remove_extra_batch_keys_keep_all(m, batch) == batch

_remove_extra_batch_keys(m, batch) ==
    LET allowed_keys == m.forward_params \cup {"labels", "loss_mask"}
    IN  {e \in batch : e.k \in allowed_keys}

\* the batch after the two pops and the tokens -> input_ids alias
shape_batch(batch) ==
    LET popped == Pop(Pop(batch, "labels"), "loss_mask")
    IN  IF ~Has(popped, "input_ids") /\ Has(popped, "tokens")
        THEN Put(popped, "input_ids", Get(popped, "tokens"))
        ELSE popped

\* The body shared by the steps, from the pop of labels to the logged metric.
\* shapes_ok: the flattened logits and labels have the same length.
step(m, batch, outputs, shapes_ok, metric, returned) ==
    IF ~Has(batch, "labels") THEN Outcome("KeyError", "", <<>>, <<>>)
    ELSE IF ~m.exists THEN Outcome("AttributeError", "", <<>>, <<>>)
    ELSE IF outputs.result # "ok" THEN outputs
    ELSE IF ~shapes_ok
    THEN Outcome("AssertionError", "", outputs.calls, outputs.fwd_calls)
    ELSE Outcome("ok", returned, outputs.calls \o <<"loss_fn", metric>>, outputs.fwd_calls)

training_step(m, batch, shapes_ok) ==
    step(m, batch, forward(m, _remove_extra_batch_keys(m, shape_batch(batch))),
         shapes_ok, "log:train_loss", "loss")

validation_step(m, batch, shapes_ok) ==
    step(m, batch, forward_kwargs(m, _remove_extra_batch_keys(m, shape_batch(batch))),
         shapes_ok, "log:val_loss", "None")

Record(name, b, o) ==
    /\ ResetCall(name, b)
    /\ result' = o.result
    /\ ret' = o.ret
    /\ calls' = o.calls
    /\ fwd_calls' = o.fwd_calls
    /\ UNCHANGED <<cfgvars, _tokenizer, model, parallelize_fn, built, pvars, lvars, svars>>

Forward(batch) == Record("forward", batch, forward(model, batch))

TrainingStep(batch, shapes_ok) ==
    Record("training_step", batch, training_step(model, batch, shapes_ok))

ValidationStep(batch, shapes_ok) ==
    Record("validation_step", batch, validation_step(model, batch, shapes_ok))

\* save_pretrained in one process; a collective inside the gather is taken to
\* return here (SpecSave has the ranks of a run side by side).
\* the rank is not looked at
is_rank0_any_rank(is_dist, rank) == TRUE

is_rank0(is_dist, rank) == ~is_dist \/ (is_dist /\ rank = 0)
gathers_state_dict(rank0, m) == rank0 \/ m.fsdp

\* the block under `if is_rank0:`; bound: cpu_state_dict was assigned
rank0_write(bound, tok) ==
    IF ~bound THEN [result |-> "UnboundLocalError", calls |-> <<>>]
    ELSE [result |-> "ok",
          calls |-> <<"model.save_pretrained">> \o
                       (IF tok # NoneTokenizer THEN <<"tokenizer.save_pretrained">>
                        ELSE <<"logging.warning">>)]

\* save_pretrained without its first line, the assert; type(None).__name__ is
\* 'NoneType', None.state_dict and None.save_pretrained are AttributeErrors
save_pretrained_no_assert(m, tok, is_dist, rank) ==
    LET rank0 == is_rank0(is_dist, rank)
        bound == gathers_state_dict(rank0, m)
        gather == IF bound THEN <<"model.state_dict">> ELSE <<>>
        w == rank0_write(bound, tok)
    IN  IF ~m.exists
        THEN IF rank0 THEN Outcome("AttributeError", "", <<>>, <<>>)
             ELSE Outcome("ok", "None", <<>>, <<>>)
        ELSE IF ~rank0 THEN Outcome("ok", "None", gather, <<>>)
        ELSE Outcome(w.result, IF w.result = "ok" THEN "None" ELSE "", gather \o w.calls, <<>>)

save_pretrained(m, tok, is_dist, rank) ==
    LET rank0 == is_rank0(is_dist, rank)
        bound == gathers_state_dict(rank0, m)
        gather == IF bound THEN <<"model.state_dict">> ELSE <<>>
        w == rank0_write(bound, tok)
    IN  IF ~m.exists THEN Outcome("AssertionError", "", <<>>, <<>>)
        ELSE IF ~rank0 THEN Outcome("ok", "None", gather, <<>>)
        ELSE Outcome(w.result, IF w.result = "ok" THEN "None" ELSE "", gather \o w.calls, <<>>)

SavePretrained(is_dist, rank) ==
    Record("save_pretrained", {}, save_pretrained(model, _tokenizer, is_dist, rank))

MaxRank == 1

\* forward signatures and batches of the adapter's life cycle
LifeSignatures == {{"input_ids", "attention_mask", "labels"}, {"tokens"}}
LifeBatches == {Batch({"input_ids", "labels"}), Batch({"tokens", "labels", "loss_mask"}),
                Batch({"input_ids"})}

\* fields and forward parameters of the steps' batches
StepFields == {"labels", "loss_mask", "tokens", "input_ids", "attention_mask", "token_count"}
StepParams == {"input_ids", "attention_mask", "labels", "loss_mask", "tokens", "position_ids"}

AdapterIdle ==
    /\ hparams = [tokenizer |-> NoneTokenizer, parallelize_fn |-> "None"]
    /\ _tokenizer = NoneTokenizer
    /\ model = NoneModel
    /\ trust_remote_code = FALSE
    /\ load_pretrained_weights = TRUE
    /\ parallelize_fn = "None"
    /\ model_accelerator = "None"
    /\ device_mesh = "None"
    /\ built = 0
    /\ op = "__init__"
    /\ arg_batch = {}
    /\ result = "ok"
    /\ ret = "None"
    /\ ret_tokenizer = NoneTokenizer
    /\ calls = <<>>
    /\ fwd_calls = <<>>
    /\ tok_attempts = <<>>

\* __init__: _tokenizer and model start as None whatever the arguments
InitAdapter ==
    /\ hparams \in [tokenizer : {NoneTokenizer} \cup InjectedTokenizers,
                     parallelize_fn : {"None", "parallelize_fn"}]
    /\ _tokenizer = NoneTokenizer
    /\ model = NoneModel
    /\ trust_remote_code \in BOOLEAN
    /\ load_pretrained_weights \in BOOLEAN
    /\ parallelize_fn = hparams.parallelize_fn
    /\ model_accelerator \in {"None", "model_accelerator"}
    /\ device_mesh \in {"None", "device_mesh"}
    /\ built = 0
    /\ op = "__init__"
    /\ arg_batch = {}
    /\ result = "ok"
    /\ ret = "None"
    /\ ret_tokenizer = NoneTokenizer
    /\ calls = <<>>
    /\ fwd_calls = <<>>
    /\ tok_attempts = <<>>

\* an adapter whose configure_model has returned: no device mesh, no hook
InitConfigured ==
    /\ hparams = [tokenizer |-> NoneTokenizer, parallelize_fn |-> "None"]
    /\ _tokenizer = NoneTokenizer
    /\ model \in {Model(params, FALSE) : params \in SUBSET StepParams}
    /\ trust_remote_code = FALSE
    /\ load_pretrained_weights = TRUE
    /\ parallelize_fn = "None"
    /\ model_accelerator = "None"
    /\ device_mesh = "None"
    /\ built = 0
    /\ op = "configure_model"
    /\ arg_batch = {}
    /\ result = "ok"
    /\ ret = "None"
    /\ ret_tokenizer = NoneTokenizer
    /\ calls = <<"AutoModelForCausalLM.from_pretrained", "model.train">>
    /\ fwd_calls = <<>>
    /\ tok_attempts = <<>>

(***************************************************************************)
(* save_pretrained across the ranks of a run.  DTensor.full_tensor() is a  *)
(* collective: it returns on a rank once every rank of the run has entered *)
(* it.                                                                     *)
(***************************************************************************)
MaxWorld == 3

Ranks == 0..(world_size - 1)

SaveIdle ==
    /\ dist_initialized = FALSE
    /\ world_size = 0
    /\ save_model = NoneModel
    /\ sharded = FALSE
    /\ rk_tokenizer = <<>>
    /\ pc = <<>>
    /\ joined = {}
    /\ cpu_state_dict = <<>>
    /\ written = <<>>
    /\ warned = <<>>
    /\ save_result = <<>>

\* every rank holds a configured adapter and is about to call save_pretrained;
\* without torch.distributed there is one process and no DTensor
InitRanks ==
    /\ dist_initialized \in BOOLEAN
    /\ world_size \in 1..MaxWorld
    /\ ~dist_initialized => world_size = 1
    /\ save_model \in {Model({"input_ids"}, wrapped) : wrapped \in BOOLEAN}
    /\ sharded \in BOOLEAN
    /\ ~dist_initialized => ~sharded
    /\ rk_tokenizer \in [0..(world_size - 1) -> {NoneTokenizer, InjectedTokenizer(1)}]
    /\ pc = [r \in 0..(world_size - 1) |-> "call"]
    /\ joined = {}
    /\ cpu_state_dict = [r \in 0..(world_size - 1) |-> FALSE]
    /\ written = [r \in 0..(world_size - 1) |-> {}]
    /\ warned = [r \in 0..(world_size - 1) |-> FALSE]
    /\ save_result = [r \in 0..(world_size - 1) |-> ""]

savefixed == <<dist_initialized, world_size, save_model, sharded, rk_tokenizer>>

\* lines 176-195 up to the first full_tensor(): the rank evaluates the gate and
\* either starts the gather or goes on without one
SaveGate(r) ==
    /\ pc[r] = "call"
    /\ IF gathers_state_dict(is_rank0(dist_initialized, r), save_model)
       THEN IF sharded
            THEN /\ pc' = [pc EXCEPT ![r] = "full_tensor"]
                 /\ joined' = joined \cup {r}
                 /\ UNCHANGED cpu_state_dict
            ELSE /\ pc' = [pc EXCEPT ![r] = "gathered"]
                 /\ cpu_state_dict' = [cpu_state_dict EXCEPT ![r] = TRUE]
                 /\ UNCHANGED joined
       ELSE /\ pc' = [pc EXCEPT ![r] = "skipped"]
            /\ UNCHANGED <<joined, cpu_state_dict>>
    /\ UNCHANGED <<savefixed, written, warned, save_result, pvars, lvars, avars>>

\* full_tensor() returns: every rank has entered the collective
FullTensorReturns(r) ==
    /\ pc[r] = "full_tensor"
    /\ joined = Ranks
    /\ pc' = [pc EXCEPT ![r] = "gathered"]
    /\ cpu_state_dict' = [cpu_state_dict EXCEPT ![r] = TRUE]
    /\ UNCHANGED <<savefixed, joined, written, warned, save_result, pvars, lvars, avars>>

\* lines 197-202
SaveWrite(r) ==
    /\ pc[r] \in {"gathered", "skipped"}
    /\ pc' = [pc EXCEPT ![r] = "done"]
    /\ IF is_rank0(dist_initialized, r)
       THEN LET w == rank0_write(cpu_state_dict[r], rk_tokenizer[r])
                has(c) == \E i \in 1..Len(w.calls) : w.calls[i] = c
            IN  /\ save_result' = [save_result EXCEPT ![r] = w.result]
                /\ written' = [written EXCEPT ![r] =
                      (IF has("model.save_pretrained") THEN {"model"} ELSE {}) \cup
                      (IF has("tokenizer.save_pretrained") THEN {"tokenizer"} ELSE {})]
                /\ warned' = [warned EXCEPT ![r] = has("logging.warning")]
       ELSE /\ save_result' = [save_result EXCEPT ![r] = "ok"]
            /\ UNCHANGED <<written, warned>>
    /\ UNCHANGED <<savefixed, joined, cpu_state_dict, pvars, lvars, avars>>

(***************************************************************************)
(* Specifications                                                          *)
(***************************************************************************)
InitPrecision == InitPrecisionInputs /\ LossIdle /\ AdapterIdle /\ SaveIdle
NextPrecision == CallTorchDtypeFromPrecision
SpecPrecision == InitPrecision /\ [][NextPrecision]_vars

InitLoss == InitLossInputs /\ PrecisionIdle /\ AdapterIdle /\ SaveIdle
NextLoss == CallMaskedCrossEntropy
SpecLoss == InitLoss /\ [][NextLoss]_vars

Init == InitAdapter /\ PrecisionIdle /\ LossIdle /\ SaveIdle
Next ==
    \/ \E fails \in [1..2 -> BOOLEAN] : TokenizerGet(fails)
    \/ \E value \in InjectedTokenizers : TokenizerSet(value)
    \/ \E params \in LifeSignatures, create_ok, wrapped, parallelize_ok, accelerator_ok \in BOOLEAN :
          ConfigureModel(params, create_ok, wrapped, parallelize_ok, accelerator_ok)
    \/ \E batch \in LifeBatches : Forward(batch)
    \/ \E batch \in LifeBatches, shapes_ok \in BOOLEAN : TrainingStep(batch, shapes_ok)
    \/ \E batch \in LifeBatches, shapes_ok \in BOOLEAN : ValidationStep(batch, shapes_ok)
    \/ \E is_dist \in BOOLEAN, rank \in 0..MaxRank : SavePretrained(is_dist, rank)
Spec == Init /\ [][Next]_vars

InitStep == InitConfigured /\ PrecisionIdle /\ LossIdle /\ SaveIdle
NextStep ==
    \/ \E fields \in SUBSET StepFields, shapes_ok \in BOOLEAN :
          TrainingStep(Batch(fields), shapes_ok)
    \/ \E fields \in SUBSET StepFields, shapes_ok \in BOOLEAN :
          ValidationStep(Batch(fields), shapes_ok)
SpecStep == InitStep /\ [][NextStep]_vars

InitSave == InitRanks /\ PrecisionIdle /\ LossIdle /\ AdapterIdle
NextSave ==
    \/ \E r \in Ranks : SaveGate(r)
    \/ \E r \in Ranks : FullTensorReturns(r)
    \/ \E r \in Ranks : SaveWrite(r)
SpecSave == InitSave /\ [][NextSave]_vars

(***************************************************************************)
(* Claims about the steps (SpecStep)                                       *)
(***************************************************************************)
\* C1: a validation_step on a configured adapter whose batch has labels (and
\* whose logits and labels agree in length) does not raise: the model's forward
\* pass is invoked exactly once, on the filtered batch, the loss is logged as
\* val_loss, and nothing is returned.
C1_ValidationStepCompletes ==
    (/\ op = "validation_step"
     /\ model.exists
     /\ Has(arg_batch, "labels")
     /\ result # "AssertionError") =>
        /\ result = "ok"
        /\ fwd_calls = <<_remove_extra_batch_keys(model, shape_batch(arg_batch))>>
        /\ calls = <<"model.forward", "loss_fn", "log:val_loss">>
        /\ ret = "None"

\* the fields of the incoming batch, with input_ids when the alias applies
FieldsAfterAlias ==
    Keys(arg_batch) \cup
        (IF Has(arg_batch, "tokens") THEN {"input_ids"} ELSE {})

\* C7: the mapping training_step hands to the model holds exactly the fields
\* of the batch (input_ids included when tokens is aliased to it) that are
\* parameters of the forward signature, never labels or loss_mask, each with
\* the tensor it arrived with; input_ids, when forwarded, is the original
\* tokens tensor if the batch had tokens and no input_ids, and the original
\* input_ids tensor otherwise.
C7_ForwardedBatch ==
    (op = "training_step" /\ Has(arg_batch, "labels")) =>
        /\ Len(fwd_calls) = 1
        /\ LET f == fwd_calls[1]
           IN  /\ Keys(f) = (FieldsAfterAlias \cap model.forward_params)
                                \ {"labels", "loss_mask"}
               /\ Cardinality(f) = Cardinality(Keys(f))
               /\ \A e \in f : e.k # "input_ids" => e.v = e.k
               /\ \A e \in f : e.k = "input_ids" =>
                     e.v = IF Has(arg_batch, "input_ids") THEN "input_ids" ELSE "tokens"

C7_Witness ==
    /\ op = "training_step"
    /\ result = "ok"
    /\ arg_batch = Batch({"labels", "loss_mask", "tokens", "attention_mask", "token_count"})
    /\ model.forward_params = {"input_ids", "attention_mask", "labels"}
    /\ fwd_calls = <<{[k |-> "input_ids", v |-> "tokens"],
                      [k |-> "attention_mask", v |-> "attention_mask"]}>>

(***************************************************************************)
(* Claims about the adapter's life cycle (Spec)                            *)
(***************************************************************************)
\* C2: a tokenizer read that has to construct tries the fast tokenizer first,
\* with the adapter's trust_remote_code as the trust flag; a failure is
\* followed by exactly one more attempt with use_fast inverted and the same
\* trust flag; when that fails too the read raises and nothing is cached.
C2_TokenizerFastFirst ==
    (op = "tokenizer.get" /\ tok_attempts # <<>>) =>
        /\ tok_attempts[1] = [use_fast |-> TRUE, trust_remote_code |-> trust_remote_code]
        /\ Len(tok_attempts) <= 2
        /\ Len(tok_attempts) = 2 =>
              tok_attempts[2] = [use_fast |-> FALSE, trust_remote_code |-> trust_remote_code]
        /\ result # "ok" => (Len(tok_attempts) = 2 /\ _tokenizer = NoneTokenizer)

\* C8: the tokenizer field is write-once.  Once a tokenizer exists it never
\* changes; an assignment fails when a tokenizer was given to the constructor,
\* assigned or lazily constructed before; a read returns the stored tokenizer,
\* which is the one injected from outside when there is one.
C8_TokenizerWriteOnce ==
    [][/\ _tokenizer # NoneTokenizer => _tokenizer' = _tokenizer
       /\ (op' = "tokenizer.set" /\ result' = "ok") =>
             (_tokenizer = NoneTokenizer /\ hparams.tokenizer = NoneTokenizer)
       /\ (op' = "tokenizer.get" /\ result' = "ok") =>
             /\ ret_tokenizer' = _tokenizer'
             /\ hparams.tokenizer # NoneTokenizer => ret_tokenizer' = hparams.tokenizer
      ]_vars

Where(c) == {i \in 1..Len(calls) : calls[i] = c}
ParallelizeCalls == Where("parallelize_fn") \cup Where("fsdp2_strategy_parallelize")
CreateCalls ==
    Where("AutoModelForCausalLM.from_pretrained") \cup Where("AutoConfig.from_pretrained")
        \cup Where("AutoModelForCausalLM.from_config")

\* C9: configure_model creates the model first; calls the parallelize
\* function once iff a device mesh is set (the injected function, or
\* fsdp2_strategy_parallelize when none was injected); then calls
\* model_accelerator once iff it is present; and calls model.train() last.  A
\* failure ends the call: nothing after the failing call runs.
C9_ConfigureModelOrder ==
    op = "configure_model" =>
        /\ 1 \in CreateCalls
        /\ \A i \in CreateCalls, j \in 1..Len(calls) : j \notin CreateCalls => i < j
        /\ Cardinality(ParallelizeCalls) <= 1
        /\ Cardinality(Where("model_accelerator")) <= 1
        /\ device_mesh = "None" => ParallelizeCalls = {}
        /\ model_accelerator = "None" => Where("model_accelerator") = {}
        /\ hparams.parallelize_fn = "None" => Where("parallelize_fn") = {}
        /\ hparams.parallelize_fn # "None" => Where("fsdp2_strategy_parallelize") = {}
        /\ \A i \in ParallelizeCalls, j \in Where("model_accelerator") : i < j
        /\ Where("model.train") \subseteq {Len(calls)}
        /\ result = "ok" <=> Where("model.train") # {}
        /\ result = "ok" =>
              /\ model.exists
              /\ device_mesh # "None" => Cardinality(ParallelizeCalls) = 1
              /\ model_accelerator # "None" => Cardinality(Where("model_accelerator")) = 1

C9_Witness ==
    /\ op = "configure_model"
    /\ hparams.parallelize_fn = "None"
    /\ calls = <<"AutoConfig.from_pretrained", "AutoModelForCausalLM.from_config",
                 "fsdp2_strategy_parallelize", "model_accelerator", "model.train">>

\* C10: forward, training_step, validation_step and save_pretrained called
\* while the model is None raise and make no call at all (no state-dict gather,
\* no write, no logged metric); a configure_model that returns leaves a model,
\* and a model, once there, stays.
C10_ModelAbsentFails ==
    /\ [](/\ (/\ op \in {"forward", "training_step", "validation_step", "save_pretrained"}
              /\ ~model.exists) =>
                 (result # "ok" /\ calls = <<>> /\ fwd_calls = <<>>)
          /\ (op = "configure_model" /\ result = "ok") => model.exists)
    /\ [][model.exists => model'.exists]_vars

C10_Witness ==
    /\ op = "save_pretrained"
    /\ ~model.exists
    /\ result = "AssertionError"
    /\ calls = <<>>

(***************************************************************************)
(* Claims about save_pretrained across ranks (SpecSave)                    *)
(***************************************************************************)
\* a rank waits in full_tensor() for a peer that went on without entering it
WaitsForever ==
    \E r \in Ranks : /\ pc[r] = "full_tensor"
                     /\ \E q \in Ranks \ joined : pc[q] \in {"skipped", "done"}

\* C3: when the state dict holds DTensors, every rank that calls
\* save_pretrained materializes the full tensors, whatever the model's type
\* name, so no rank waits for a peer that never joins the gather.
C3_EveryRankMaterializes ==
    (dist_initialized /\ sharded) =>
        /\ \A r \in Ranks : pc[r] # "skipped"
        /\ \A r \in Ranks : pc[r] = "done" => cpu_state_dict[r]
        /\ ~WaitsForever

\* C4: only rank 0 (the only process, when torch.distributed is not
\* initialized) writes, and it writes a state dict gathered in the same call;
\* it writes the tokenizer iff _tokenizer is set and logs the warning
\* otherwise; every call that gets to its end returns without raising.
C4_OnlyRank0Writes ==
    \A r \in Ranks :
        /\ r # 0 => (written[r] = {} /\ ~warned[r])
        /\ written[r] # {} => cpu_state_dict[r]
        /\ pc[r] = "done" => save_result[r] = "ok"
        /\ (pc[r] = "done" /\ r = 0) =>
              /\ "model" \in written[r]
              /\ "tokenizer" \in written[r] <=> rk_tokenizer[r] # NoneTokenizer
              /\ warned[r] <=> rk_tokenizer[r] = NoneTokenizer

C4_Witness ==
    /\ dist_initialized
    /\ world_size = 3
    /\ ~save_model.fsdp
    /\ \A r \in Ranks : pc[r] = "done"
    /\ written = [r \in Ranks |-> IF r = 0 THEN {"model"} ELSE {}]
    /\ warned[0]
    /\ rk_tokenizer[1] # NoneTokenizer

(***************************************************************************)
(* Claims about torch_dtype_from_precision                                 *)
(***************************************************************************)
Bf16Ids == {PyStr("bf16"), PyStr("bf16-mixed")}
Fp16Ids == {PyInt(16), PyStr("16"), PyStr("16-mixed")}
Fp32Ids == {PyInt(32), PyStr("32"), PyStr("32-true")}

\* C5: with megatron_amp_O2 true the accepted identifiers map to bfloat16,
\* float16 and float32 as documented and every other int or str raises a
\* ValueError naming the input; with megatron_amp_O2 false every input gives
\* float32 and nothing is raised.
C5_PrecisionTable ==
    dtype # NotCalled =>
        IF ~megatron_amp_O2 THEN dtype = Return("float32")
        ELSE /\ precision \in Bf16Ids => dtype = Return("bfloat16")
             /\ precision \in Fp16Ids => dtype = Return("float16")
             /\ precision \in Fp32Ids => dtype = Return("float32")
             /\ precision \notin Bf16Ids \cup Fp16Ids \cup Fp32Ids =>
                    /\ dtype.kind = "raise"
                    /\ dtype.exc = "ValueError"
                    /\ dtype.names = precision

C5_Witness ==
    /\ megatron_amp_O2
    /\ precision = PyStr("16-true")
    /\ dtype.kind = "raise"

(***************************************************************************)
(* Claims about masked_cross_entropy                                       *)
(***************************************************************************)
\* the per-example losses l_1..l_N and the masked sum
PerExample == cross_entropy_none(logits, targets)
MaskedSum == SumSeq([i \in 1..Len(logits) |-> PerExample[i] * mask.view[i]])
Ones == SumSeq(mask.view)
N == Len(logits)
NoTargetIgnored == \A i \in 1..N : targets[i] # IgnoreIndex

MaskedDenominatorIsN ==
    /\ RatEq(loss, Rat(MaskedSum, N))
    /\ Ones = 0 => RatEq(loss, Rat(0, 1))
    /\ (0 < Ones /\ Ones < N /\ MaskedSum # 0) => ~RatEq(loss, Rat(MaskedSum, Ones))

\* C6 as stated: the masked result is sum(l_i * m_i) / N, so an all-ones mask
\* gives the same result as the call without a mask, an all-zeros mask gives 0
\* and a mask with k < N ones differs from sum(l_i * m_i) / k whenever the
\* masked sum is not zero.
C6_AsStated ==
    (loss # NoLoss /\ mask.present) =>
        /\ MaskedDenominatorIsN
        /\ Ones = N => RatEq(loss, masked_cross_entropy(logits, targets, NoMask))

\* C6 amended: as stated, except that the all-ones mask agrees with the call
\* without a mask only when no target equals the ignore index; without a mask
\* the mean is taken over the targets that are not ignored (and is NaN when all
\* are), so with an ignored target and a non-zero sum the two results differ.
C6_MaskedMeanOverN ==
    /\ (loss # NoLoss /\ mask.present) =>
          /\ MaskedDenominatorIsN
          /\ (Ones = N /\ NoTargetIgnored) =>
                 RatEq(loss, masked_cross_entropy(logits, targets, NoMask))
          /\ (Ones = N /\ ~NoTargetIgnored /\ MaskedSum # 0) =>
                 ~RatEq(loss, masked_cross_entropy(logits, targets, NoMask))
    /\ (loss # NoLoss /\ ~mask.present /\ NoTargetIgnored) =>
          RatEq(loss, Rat(SumSeq(logits), N))

C6_Witness ==
    /\ loss # NoLoss
    /\ mask.present
    /\ N = 3
    /\ Ones = 2
    /\ MaskedSum = 3
    /\ NoTargetIgnored

====
